---- MODULE Spec2Model ----
(***************************************************************************)
(* fdringbuf: a single-producer / single-consumer ring buffer              *)
(* (src/src/ringbuf.rs) and its wrapper that signals the peer through a    *)
(* pair of file descriptors (src/src/fdbuf.rs).                            *)
(*                                                                         *)
(* Two threads, the owner of the Sender and the owner of the Receiver, run *)
(* in parallel.  Every access to the shared atomic count (load, fetch_add, *)
(* fetch_sub), every callback and every syscall on a descriptor is one     *)
(* step, so all interleavings of the two endpoints are explored.           *)
(***************************************************************************)
EXTENDS Integers, Sequences, FiniteSets, TLC

(***************************************************************************)
(* Bounds of the model.                                                    *)
(***************************************************************************)
\* capacity of the ring in items: Buf.length
Length == 2
\* items published in one run of Spec
MaxItems == 3
\* largest count argument handed to send_foreach in Spec
MaxCount == 2
\* the items the owners of SpecRepeat may send
RepeatItems == 6
\* items published in one run of SpecPoll
PollItems == 34
\* b.iter iterations of the benchmark in SpecBench
BenchIters == 3
\* items per send_foreach of the benchmark (400 in the source)
BenchBatch == 1
\* items taken per recv pass of the benchmark (300 in the source)
BenchTake == 1

(***************************************************************************)
(* Program constants.                                                      *)
(***************************************************************************)
\* width of usize (AtomicUsize): the narrowest target Rust supports
UsizeBits == 16
UsizeMod == 2 ^ UsizeBits
\* type Arr = [u64; 32]: the words one flush_fd reads
FlushWords == 32
\* the value the benchmark sends last
Sentinel == -1
\* the content of a slot nobody has written yet ("garbage data")
Uninit == 0
\* what a fill callback leaves in the offered slots past the n it reports
Scratch == -2

FdKinds == {"pipe", "eventfd"}

Min(a, b) == IF a <= b THEN a ELSE b

\* usize arithmetic (wrapping, as in a release build)
WrapAdd(a, b) == (a + b) % UsizeMod
WrapSub(a, b) == (a - b + UsizeMod) % UsizeMod

Slots == 0 .. (Length - 1)

VARIABLES
    count,      \* the shared AtomicUsize at the head of the buffer
    data,       \* the Length slots after it
    fdEmpty,    \* unread tokens of Pipe "empty" (Sender signals, Receiver waits)
    fdFull,     \* unread tokens of Pipe "full" (Receiver signals, Sender waits)
    fdKind,     \* what the descriptors are: a pipe or an eventfd
    snd,        \* fdbuf::Sender, the locals of its running call, its owner
    rcv,        \* fdbuf::Receiver, the locals of its running call, its owner
    published,  \* history: the values published by fetch_add, in order
    consumed,   \* history: the values the drain callbacks consumed, in order
    hist        \* history: totals of tokens written and of count's transitions

vars == <<count, data, fdEmpty, fdFull, fdKind, snd, rcv, published, consumed, hist>>

shared == <<count, data, fdEmpty, fdFull, fdKind>>

(***************************************************************************)
(* ringbuf::channel and fdbuf::channel: count is stored 0, both indices    *)
(* start at 0, the slots hold whatever the caller's buffer held.           *)
(***************************************************************************)
SndInit ==
    [pc |-> "idle", index |-> 0, kind |-> "none", gen |-> "seq",
     limit |-> 0, pcount |-> 0, pass |-> 0,
     cb |-> 0, len |-> 0, n |-> 0, c |-> 0,
     repeat |-> FALSE, r |-> 0, last |-> 0, was_empty |-> FALSE, ret |-> 0,
     iter |-> 0, total1 |-> 0, sentinel |-> FALSE,
     res |-> <<0, FALSE>>, after |-> 0, fin |-> FALSE, trans |-> FALSE, tok |-> 0,
     e |-> 0, err |-> FALSE, count0 |-> 0, first |-> "none", calls |-> 0]

RcvInit ==
    [pc |-> "idle", index |-> 0, kind |-> "none",
     cb |-> 0, len |-> 0, n |-> 0, c |-> 0,
     repeat |-> FALSE, r |-> 0, last |-> 0, was_full |-> FALSE, ret |-> 0,
     quit |-> FALSE, sum |-> 0,
     res |-> <<0, FALSE>>, after |-> 0, fin |-> FALSE, trans |-> FALSE, tok |-> 0,
     e |-> 0, err |-> FALSE, calls |-> 0]

HistInit == [tokE |-> 0, transE |-> 0, tokF |-> 0, transF |-> 0]

Init ==
    /\ count = 0
    /\ data = [i \in Slots |-> Uninit]
    /\ fdEmpty = 0
    /\ fdFull = 0
    /\ fdKind \in FdKinds
    /\ snd = SndInit
    /\ rcv = RcvInit
    /\ published = <<>>
    /\ consumed = <<>>
    /\ hist = HistInit

(***************************************************************************)
(* The pure parts of the code.                                             *)
(***************************************************************************)
\* a send that cuts its slice to the end of the array only
SendSliceToEnd(index, cb) == WrapSub(Length, index)

\* ringbuf Sender::send: the length of data[index .. end]
SendSliceLen(index, cb) ==
    Min(WrapSub(Length, index), WrapSub(Length, cb))

\* a send that computes its result from the count it loaded
SendResultFromLoad(c, n) ==
    <<WrapSub(WrapSub(Length, snd.cb), n), snd.cb = 0 /\ n > 0>>

\* ringbuf Sender::send: (l - c - n, c == 0 && n > 0)
SendResult(c, n) ==
    <<WrapSub(WrapSub(Length, c), n), c = 0 /\ n > 0>>

\* a send that moves its index by one slot per pass
SendIndexByOne(index, n) == (index + 1) % Length

\* ringbuf Sender::send: self.index = (self.index + n) % l
SendIndex(index, n) == (index + n) % Length

\* ringbuf Receiver::recv: the length of data[index .. min(index + cb, l)]
RecvSliceLen(index, cb) ==
    Min(WrapAdd(index, cb), Length) - index

\* a recv that computes its result from the count it loaded
RecvResultFromLoad(c, n) ==
    <<WrapSub(rcv.cb, n), rcv.cb >= Length /\ n > 0>>

\* ringbuf Receiver::recv: (c - n, c >= l && n > 0)
RecvResult(c, n) ==
    <<WrapSub(c, n), c >= Length /\ n > 0>>

\* a recv that moves its index on by one item, whatever n is
RecvIndexByOne(index, n) == (index + 1) % Length

\* ringbuf Receiver::recv: self.index = (self.index + n) % l
RecvIndex(index, n) == (index + n) % Length

\* ringbuf Sender::send_foreach: the closure writes while i < c && i < count
ForeachCount(c, cnt) == Min(c, cnt)

\* a send that signals whenever it wrote something
SendWakesOnWrite(r, was_empty) == r > 0

\* fdbuf Sender::send: if r > 0 && was_empty
SendWakes(r, was_empty) == r > 0 /\ was_empty

\* fdbuf Sender::send_foreach: if count > 0 && was_empty
ForeachWakes(cnt, was_empty) == cnt > 0 /\ was_empty

\* a send_foreach that never makes its second pass
ForeachSinglePass(free_items, w, cnt) == FALSE

\* fdbuf Sender::send_foreach: if free_items > 0 && w < count
ForeachSecondPass(free_items, w, cnt) == free_items > 0 /\ w < cnt

\* a recv that signals whenever it consumed something
RecvWakesOnRead(r, was_full) == r > 0

\* fdbuf Receiver::recv: if r > 0 && was_full
RecvWakes(r, was_full) == r > 0 /\ was_full

\* write_fd: one write of the 8-byte value 1 adds one token
WriteFd(t) == t + 1

\* a failing write that leaves its token in the descriptor all the same
WriteFdErrWritten(t) == t + 1

\* write_fd: a write that returns -1 has written nothing
WriteFdErr(t) == t

\* a wrapper whose repeat flag lives on from pass to pass
RepeatKept(rep) == rep

\* fdbuf send, recv: let mut repeat = false, anew in every turn of the loop
RepeatAtPass(rep) == FALSE

\* a wrapper that keeps the flag of its last pass only
AggregateLast(was, flag) == flag

\* fdbuf send, send_foreach, recv: was_empty |= wempty, was_full |= wfull
Aggregate(was, flag) == was \/ flag

\* ringbuf Sender::write_count, as wait_status returns it
WriteCount == WrapSub(Length, count)

\* ringbuf Receiver::read_count, as wait_status returns it
ReadCount == count

\* a flush_fd that reads a single word
FlushOneWord(kind, t) ==
    IF kind = "pipe" THEN t - Min(t, 1) ELSE 0

\* flush_fd: one read of FlushWords words.  A pipe hands over at most that
\* many of its tokens; an eventfd hands over its counter and resets it.
FlushFd(kind, t) ==
    IF kind = "pipe" THEN t - Min(t, FlushWords) ELSE 0

\* the slots data[index .. index + len) as a sequence
View(index, len) == [k \in 1 .. len |-> data[index + k - 1]]

SCallable == snd.pc \in {"idle", "ret"}
RCallable == rcv.pc \in {"idle", "ret"}

(***************************************************************************)
(* The Sender's thread.                                                    *)
(***************************************************************************)
\* fdbuf Sender::send is entered: r = 0, was_empty = false
\* (history of a send_foreach: count0 is count at its entry, first tells
\* whether the first pass that wrote had loaded a count of 0)
SendEnter(kind, gen, cnt) ==
    [snd EXCEPT !.pc = "load", !.kind = kind, !.gen = gen,
                !.limit = cnt, !.pcount = cnt, !.pass = 1,
                !.r = 0, !.was_empty = FALSE, !.ret = 0,
                !.trans = FALSE, !.tok = 0, !.e = 0, !.err = FALSE,
                !.count0 = IF kind = "foreach" THEN count ELSE 0,
                !.first = "none", !.calls = 0]

\* the Sender between two calls: the endpoint and its owner's variables
SendIdle(pc) ==
    [SndInit EXCEPT !.pc = pc, !.index = snd.index, !.iter = snd.iter,
                    !.total1 = snd.total1, !.sentinel = snd.sentinel]

SendCall ==
    /\ SCallable
    /\ snd' = SendEnter("send", "seq", 0)
    /\ UNCHANGED <<shared, rcv, published, consumed, hist>>

\* fdbuf Sender::send_foreach(cnt, f) is entered: w = 0
ForeachCall(cnt, gen) ==
    /\ SCallable
    /\ snd' = SendEnter("foreach", gen, cnt)
    /\ UNCHANGED <<shared, rcv, published, consumed, hist>>

SendForeachCall(max) ==
    \E cnt \in 0 .. MaxCount :
        /\ Len(published) + cnt <= max
        /\ ForeachCall(cnt, "seq")

\* ringbuf Sender::send: cb = count.load(SeqCst), the slice is cut; an
\* empty slice skips the callback with n = 0
SLoad ==
    /\ snd.pc = "load"
    /\ LET len == SendSliceLen(snd.index, count)
       IN  snd' = [snd EXCEPT !.cb = count, !.len = len, !.n = 0, !.c = 0,
                              !.repeat = RepeatAtPass(@),
                              !.res = <<0, FALSE>>, !.after = 0, !.fin = FALSE,
                              !.pc = IF len = 0 THEN "add" ELSE "fill"]
    /\ UNCHANGED <<shared, rcv, published, consumed, hist>>

\* the fill callback of fdbuf Sender::send: it writes the next values into
\* the first n offered slots, may leave Scratch in the others, and returns
\* (n, rep)
FillWith(n, rep, scribble, max) ==
    /\ snd.pc = "fill"
    /\ snd.kind = "send"
    /\ n <= snd.len
    /\ Len(published) + n <= max
    /\ data' = [i \in Slots |->
                  IF i >= snd.index /\ i < snd.index + snd.len
                  THEN IF i - snd.index < n
                       THEN Len(published) + (i - snd.index) + 1
                       ELSE IF scribble THEN Scratch ELSE data[i]
                  ELSE data[i]]
    /\ snd' = [snd EXCEPT !.n = n, !.repeat = rep, !.r = @ + n, !.pc = "add"]
    /\ UNCHANGED <<count, fdEmpty, fdFull, fdKind, rcv, published, consumed, hist>>

SendFill(max) ==
    \E n \in 0 .. Length, rep \in BOOLEAN, scribble \in BOOLEAN :
        FillWith(n, rep, scribble, max)

\* the value f(i) of the closure handed to send_foreach
Produce(gen, i) ==
    CASE gen = "seq" -> Len(published) + (i - snd.r) + 1
      [] gen = "bench" -> i + 1
      [] OTHER -> Sentinel

\* the closure of ringbuf Sender::send_foreach under fdbuf's counting
\* closure: ptr::write(p.offset(i), f(w - 1)) while i < c && i < count
ForeachFill ==
    /\ snd.pc = "fill"
    /\ snd.kind = "foreach"
    /\ LET n == ForeachCount(snd.len, snd.pcount)
       IN  /\ data' = [i \in Slots |->
                         IF i >= snd.index /\ i < snd.index + n
                         THEN Produce(snd.gen, snd.r + (i - snd.index))
                         ELSE data[i]]
           /\ snd' = [snd EXCEPT !.n = n, !.r = @ + n,
                                 !.total1 = IF snd.gen = "bench"
                                            THEN @ + ((n * (2 * snd.r + n + 1)) \div 2)
                                            ELSE @,
                                 !.pc = "add"]
    /\ UNCHANGED <<count, fdEmpty, fdFull, fdKind, rcv, published, consumed, hist>>

\* ringbuf Sender::send: c = count.fetch_add(n, SeqCst), the index moves on
\* and (l - c - n, c == 0 && n > 0) is returned to the wrapper, which then
\* decides on another pass
SAdd ==
    /\ snd.pc = "add"
    /\ LET c == count
           n == snd.n
           res == SendResult(c, n)
           again == IF snd.kind = "send"
                    THEN snd.repeat
                    ELSE snd.pass = 1 /\ ForeachSecondPass(res[1], snd.r, snd.limit)
           edge == count = 0 /\ count' > 0
       IN  /\ count' = WrapAdd(count, n)
           /\ published' = published \o View(snd.index, n)
           /\ snd' = [snd EXCEPT
                        !.c = c, !.index = SendIndex(snd.index, n),
                        !.res = res, !.after = count', !.fin = TRUE,
                        !.last = res[1],
                        !.was_empty = Aggregate(@, res[2]),
                        !.first = IF snd.kind = "foreach" /\ @ = "none" /\ n > 0
                                  THEN IF snd.cb = 0 THEN "empty" ELSE "items"
                                  ELSE @,
                        !.trans = @ \/ edge,
                        !.pass = IF again /\ snd.kind = "foreach" THEN 2 ELSE @,
                        !.pcount = IF again /\ snd.kind = "foreach"
                                   THEN snd.limit - snd.r ELSE @,
                        !.pc = IF again THEN "load" ELSE "signal"]
           /\ hist' = [hist EXCEPT !.transE = IF edge THEN @ + 1 ELSE @]
    /\ UNCHANGED <<data, fdEmpty, fdFull, fdKind, rcv, consumed>>

\* the end of fdbuf Sender::send / send_foreach: one token for the peer if
\* the call wrote into an empty ring, and Ok(last)
SSignal ==
    /\ snd.pc = "signal"
    /\ LET wake == IF snd.kind = "send"
                   THEN SendWakes(snd.r, snd.was_empty)
                   ELSE ForeachWakes(snd.limit, snd.was_empty)
       IN  /\ fdEmpty' = IF wake THEN WriteFd(fdEmpty) ELSE fdEmpty
           /\ snd' = [SendIdle("ret") EXCEPT
                                 !.ret = snd.last, !.r = snd.r,
                                 !.trans = snd.trans,
                                 !.tok = fdEmpty' - fdEmpty]
           /\ hist' = [hist EXCEPT !.tokE = @ + (fdEmpty' - fdEmpty)]
    /\ UNCHANGED <<count, data, fdFull, fdKind, rcv, published, consumed>>

\* try!(write_fd(self.signal_fd)) with a failing write: the call returns
\* the error where it would have signalled
SSignalErr ==
    /\ snd.pc = "signal"
    /\ IF snd.kind = "send"
       THEN SendWakes(snd.r, snd.was_empty)
       ELSE ForeachWakes(snd.limit, snd.was_empty)
    /\ fdEmpty' = WriteFdErr(fdEmpty)
    /\ snd' = [SendIdle("ret") EXCEPT
                          !.r = snd.r, !.trans = snd.trans,
                          !.tok = fdEmpty' - fdEmpty, !.err = TRUE]
    /\ hist' = [hist EXCEPT !.tokE = @ + (fdEmpty' - fdEmpty)]
    /\ UNCHANGED <<count, data, fdFull, fdKind, rcv, published, consumed>>

\* the owner got Ok(0) from send or send_foreach and blocks on wait_fd
SBlock ==
    /\ snd.pc = "ret" /\ ~snd.err /\ snd.ret = 0
    /\ snd' = SendIdle("wait")
    /\ UNCHANGED <<shared, rcv, published, consumed, hist>>

\* fdbuf Sender::wait_status: (wait_fd, write_count()); the owner blocks on
\* wait_fd if the number is zero
SWaitStatus ==
    /\ SCallable
    /\ snd' = SendIdle(IF WriteCount = 0 THEN "wait" ELSE "idle")
    /\ UNCHANGED <<shared, rcv, published, consumed, hist>>

\* the wait returns once wait_fd is readable; the owner calls wait_clear
SWoken ==
    /\ snd.pc = "wait"
    /\ fdFull > 0
    /\ snd' = SendIdle("clear")
    /\ UNCHANGED <<shared, rcv, published, consumed, hist>>

\* fdbuf Sender::wait_clear is entered
SWaitClear ==
    /\ SCallable
    /\ snd' = SendIdle("clear")
    /\ UNCHANGED <<shared, rcv, published, consumed, hist>>

\* flush_fd(wait_fd): the read blocks until the descriptor is readable
SFlush ==
    /\ snd.pc = "clear"
    /\ fdFull > 0
    /\ fdFull' = FlushFd(fdKind, fdFull)
    /\ snd' = [SendIdle("idle") EXCEPT !.e = fdFull - fdFull']
    /\ UNCHANGED <<count, data, fdEmpty, fdKind, rcv, published, consumed, hist>>

(***************************************************************************)
(* The Receiver's thread.                                                  *)
(***************************************************************************)
\* fdbuf Receiver::recv is entered: r = 0, was_full = false
RecvEnter(kind) ==
    [rcv EXCEPT !.pc = "load", !.kind = kind, !.r = 0, !.was_full = FALSE,
                !.ret = 0, !.trans = FALSE, !.tok = 0, !.e = 0, !.err = FALSE,
                !.calls = 0]

\* the Receiver between two calls: the endpoint and its owner's variables
RecvIdle(pc) ==
    [RcvInit EXCEPT !.pc = pc, !.index = rcv.index, !.quit = rcv.quit,
                    !.sum = rcv.sum]

RecvCall ==
    /\ RCallable
    /\ rcv' = RecvEnter("recv")
    /\ UNCHANGED <<shared, snd, published, consumed, hist>>

\* ringbuf Receiver::recv: cb = count.load(SeqCst), the view is cut; an
\* empty view skips the callback with n = 0
RLoad ==
    /\ rcv.pc = "load"
    /\ LET len == RecvSliceLen(rcv.index, count)
       IN  rcv' = [rcv EXCEPT !.cb = count, !.len = len, !.n = 0, !.c = 0,
                              !.repeat = RepeatAtPass(@),
                              !.res = <<0, FALSE>>, !.after = 0, !.fin = FALSE,
                              !.pc = IF len = 0 THEN "sub" ELSE "drain"]
    /\ UNCHANGED <<shared, snd, published, consumed, hist>>

\* the drain callback of fdbuf Receiver::recv: it reads the view, consumes
\* its first n items and returns (n, rep)
DrainWith(n, rep) ==
    /\ rcv.pc = "drain"
    /\ rcv.kind = "recv"
    /\ n <= rcv.len
    /\ consumed' = consumed \o View(rcv.index, n)
    /\ rcv' = [rcv EXCEPT !.n = n, !.repeat = rep, !.r = @ + n, !.pc = "sub"]
    /\ UNCHANGED <<shared, snd, published, hist>>

RecvDrain ==
    \E n \in 0 .. Length, rep \in BOOLEAN : DrainWith(n, rep)

\* ringbuf Receiver::recv: c = count.fetch_sub(n, SeqCst), the index moves
\* on and (c - n, c >= l && n > 0) is returned to the wrapper, which then
\* decides on another pass
RSub ==
    /\ rcv.pc = "sub"
    /\ LET c == count
           n == rcv.n
           res == RecvResult(c, n)
           edge == count >= Length /\ count' < Length
       IN  /\ count' = WrapSub(count, n)
           /\ rcv' = [rcv EXCEPT
                        !.c = c, !.index = RecvIndex(rcv.index, n),
                        !.res = res, !.after = count', !.fin = TRUE,
                        !.last = res[1],
                        !.was_full = Aggregate(@, res[2]),
                        !.trans = @ \/ edge,
                        !.pc = IF rcv.repeat THEN "load" ELSE "signal"]
           /\ hist' = [hist EXCEPT !.transF = IF edge THEN @ + 1 ELSE @]
    /\ UNCHANGED <<data, fdEmpty, fdFull, fdKind, snd, published, consumed>>

\* the end of fdbuf Receiver::recv: one token for the peer if the call read
\* from a full ring, and Ok(last)
RSignal ==
    /\ rcv.pc = "signal"
    /\ LET wake == RecvWakes(rcv.r, rcv.was_full)
       IN  /\ fdFull' = IF wake THEN WriteFd(fdFull) ELSE fdFull
           /\ rcv' = [RecvIdle("ret") EXCEPT
                                 !.ret = rcv.last, !.r = rcv.r,
                                 !.trans = rcv.trans,
                                 !.tok = fdFull' - fdFull]
           /\ hist' = [hist EXCEPT !.tokF = @ + (fdFull' - fdFull)]
    /\ UNCHANGED <<count, data, fdEmpty, fdKind, snd, published, consumed>>

\* try!(write_fd(self.signal_fd)) with a failing write: the call returns
\* the error where it would have signalled
RSignalErr ==
    /\ rcv.pc = "signal"
    /\ RecvWakes(rcv.r, rcv.was_full)
    /\ fdFull' = WriteFdErr(fdFull)
    /\ rcv' = [RecvIdle("ret") EXCEPT
                          !.r = rcv.r, !.trans = rcv.trans,
                          !.tok = fdFull' - fdFull, !.err = TRUE]
    /\ hist' = [hist EXCEPT !.tokF = @ + (fdFull' - fdFull)]
    /\ UNCHANGED <<count, data, fdEmpty, fdKind, snd, published, consumed>>

\* the owner got Ok(0) from recv and blocks on wait_fd
RBlock ==
    /\ rcv.pc = "ret" /\ ~rcv.err /\ rcv.ret = 0
    /\ rcv' = RecvIdle("wait")
    /\ UNCHANGED <<shared, snd, published, consumed, hist>>

\* fdbuf Receiver::wait_status: (wait_fd, read_count()); the owner blocks
\* on wait_fd if the number is zero
RWaitStatus ==
    /\ RCallable
    /\ rcv' = RecvIdle(IF ReadCount = 0 THEN "wait" ELSE "idle")
    /\ UNCHANGED <<shared, snd, published, consumed, hist>>

\* the wait returns once wait_fd is readable; the owner calls wait_clear
RWoken ==
    /\ rcv.pc = "wait"
    /\ fdEmpty > 0
    /\ rcv' = RecvIdle("clear")
    /\ UNCHANGED <<shared, snd, published, consumed, hist>>

\* fdbuf Receiver::wait_clear is entered
RWaitClear ==
    /\ RCallable
    /\ rcv' = RecvIdle("clear")
    /\ UNCHANGED <<shared, snd, published, consumed, hist>>

\* flush_fd(wait_fd): the read blocks until the descriptor is readable
RFlush ==
    /\ rcv.pc = "clear"
    /\ fdEmpty > 0
    /\ fdEmpty' = FlushFd(fdKind, fdEmpty)
    /\ rcv' = [RecvIdle("idle") EXCEPT !.e = fdEmpty - fdEmpty']
    /\ UNCHANGED <<count, data, fdFull, fdKind, snd, published, consumed, hist>>

(***************************************************************************)
(* Spec: both owners call the wrappers in any order, with any callbacks    *)
(* that keep to the contract n <= offered length, and block on their       *)
(* wait_fd only when told that nothing is available; every write to a      *)
(* signal descriptor succeeds.                                             *)
(***************************************************************************)
Next ==
    \/ SendCall
    \/ SendForeachCall(MaxItems)
    \/ SLoad
    \/ SendFill(MaxItems)
    \/ ForeachFill
    \/ SAdd
    \/ SSignal
    \/ SBlock
    \/ SWaitStatus
    \/ SWoken
    \/ SWaitClear
    \/ SFlush
    \/ RecvCall
    \/ RLoad
    \/ RecvDrain
    \/ RSub
    \/ RSignal
    \/ RBlock
    \/ RWaitStatus
    \/ RWoken
    \/ RWaitClear
    \/ RFlush

Spec == Init /\ [][Next]_vars

(***************************************************************************)
(* SpecErr: both owners call send, send_foreach and recv in any order, and *)
(* any write to a signal descriptor may fail.                              *)
(***************************************************************************)
NextErr ==
    \/ SendCall
    \/ SendForeachCall(MaxItems)
    \/ SLoad
    \/ SendFill(MaxItems)
    \/ ForeachFill
    \/ SAdd
    \/ SSignal
    \/ SSignalErr
    \/ RecvCall
    \/ RLoad
    \/ RecvDrain
    \/ RSub
    \/ RSignal
    \/ RSignalErr

SpecErr == Init /\ [][NextErr]_vars

(***************************************************************************)
(* SpecRepeat: one owner at a time calls send or recv with a callback that *)
(* takes at least one item of what it is offered and always asks to be     *)
(* called again (calls counts its invocations); a thread inside a call is  *)
(* scheduled for as long as it can take a step.                            *)
(***************************************************************************)
\* send while the Receiver is between calls
GreedySendCall ==
    /\ RCallable
    /\ Len(published) + WriteCount <= RepeatItems
    /\ SendCall

\* the closure: it fills n >= 1 of the s offered slots and returns (n, true)
GreedyFill ==
    \E n \in 1 .. Length :
        /\ snd.pc = "fill"
        /\ snd.kind = "send"
        /\ n <= snd.len
        /\ data' = [i \in Slots |->
                      IF i >= snd.index /\ i < snd.index + n
                      THEN Len(published) + (i - snd.index) + 1
                      ELSE data[i]]
        /\ snd' = [snd EXCEPT !.n = n, !.repeat = TRUE, !.r = @ + n,
                              !.calls = @ + 1, !.pc = "add"]
        /\ UNCHANGED <<count, fdEmpty, fdFull, fdKind, rcv, published, consumed, hist>>

\* recv while the Sender is between calls
GreedyRecvCall ==
    /\ SCallable
    /\ RecvCall

\* the closure: it consumes n >= 1 of the items it is shown and returns
\* (n, true)
GreedyDrain ==
    \E n \in 1 .. Length :
        /\ rcv.pc = "drain"
        /\ rcv.kind = "recv"
        /\ n <= rcv.len
        /\ consumed' = consumed \o View(rcv.index, n)
        /\ rcv' = [rcv EXCEPT !.n = n, !.repeat = TRUE, !.r = @ + n,
                              !.calls = @ + 1, !.pc = "sub"]
        /\ UNCHANGED <<shared, snd, published, hist>>

RepeatSender == SLoad \/ GreedyFill \/ SAdd \/ SSignal

RepeatReceiver == RLoad \/ GreedyDrain \/ RSub \/ RSignal

NextRepeat ==
    \/ GreedySendCall
    \/ GreedyRecvCall
    \/ RepeatSender
    \/ RepeatReceiver

SpecRepeat ==
    /\ Init
    /\ [][NextRepeat]_vars
    /\ WF_vars(RepeatSender)
    /\ WF_vars(RepeatReceiver)

(***************************************************************************)
(* SpecPoll: the Sender's owner sends one item per call, and only when     *)
(* wait_status reports the whole ring free; the Receiver's owner polls     *)
(* recv, taking all it is shown, and calls wait_clear when it likes, so    *)
(* that tokens pile up in its wake descriptor.                             *)
(***************************************************************************)
\* if s.wait_status().1 == capacity { s.send(..) }: only the Sender adds to
\* count, so what it read still holds when send loads it
PollSendCall ==
    /\ WriteCount = Length
    /\ SendCall

PollFill == FillWith(1, FALSE, FALSE, PollItems)

PollDrain == DrainWith(rcv.len, FALSE)

NextPoll ==
    \/ PollSendCall
    \/ SLoad
    \/ PollFill
    \/ SAdd
    \/ SSignal
    \/ RecvCall
    \/ RLoad
    \/ PollDrain
    \/ RSub
    \/ RSignal
    \/ RWaitClear
    \/ RFlush

SpecPoll == Init /\ [][NextPoll]_vars

(***************************************************************************)
(* SpecBench: run400_300_1024_bench.  The main thread sends a batch per    *)
(* iteration and waits for its descriptor when send_foreach returned 0,    *)
(* then sends the sentinel; the spawned thread loops recv, asking for a    *)
(* repeat until it sees the sentinel, and waits for its descriptor when    *)
(* recv returned 0.                                                        *)
(***************************************************************************)
RECURSIVE SumSeq(_)
SumSeq(q) == IF q = <<>> THEN 0 ELSE Head(q) + SumSeq(Tail(q))

\* the main thread may go on: it was not told to wait
BenchSendGoes == snd.pc = "idle" \/ (snd.pc = "ret" /\ snd.ret # 0)

\* b.iter: s.send_foreach(400, |_| { c += 1; total1 += c; c })
BenchSend ==
    /\ BenchSendGoes
    /\ snd.iter < BenchIters
    /\ snd' = [SendEnter("foreach", "bench", BenchBatch) EXCEPT !.iter = @ + 1]
    /\ UNCHANGED <<shared, rcv, published, consumed, hist>>

\* if can_send == 0 { wait_epoll(waitfd); .. }, in an iteration
BenchSendWait ==
    /\ snd.pc = "ret" /\ snd.ret = 0
    /\ ~snd.sentinel
    /\ snd' = [snd EXCEPT !.pc = "wait"]
    /\ UNCHANGED <<shared, rcv, published, consumed, hist>>

\* wait_epoll returns once the descriptor is readable; s.wait_clear()
BenchSendWoken ==
    /\ snd.pc = "wait"
    /\ fdFull > 0
    /\ snd' = SendIdle("clear")
    /\ UNCHANGED <<shared, rcv, published, consumed, hist>>

\* s.send_foreach(1, |_| -1) after the last iteration
BenchSendSentinel ==
    /\ BenchSendGoes
    /\ snd.iter = BenchIters
    /\ ~snd.sentinel
    /\ snd' = [SendEnter("foreach", "sentinel", 1) EXCEPT !.sentinel = TRUE]
    /\ UNCHANGED <<shared, rcv, published, consumed, hist>>

\* the main thread goes on to guard.join()
BenchSendDone ==
    /\ snd.pc = "ret"
    /\ snd.sentinel
    /\ snd' = [snd EXCEPT !.pc = "done"]
    /\ UNCHANGED <<shared, rcv, published, consumed, hist>>

\* loop { let can_recv = r.recv(..) .. }
BenchRecv ==
    /\ rcv.pc = "idle" \/ (rcv.pc = "ret" /\ ~rcv.quit /\ rcv.ret # 0)
    /\ rcv' = RecvEnter("bench")
    /\ UNCHANGED <<shared, snd, published, consumed, hist>>

\* the closure of the spawned thread: it takes up to BenchTake items, adds
\* them to sum and stops at the sentinel
BenchDrain ==
    /\ rcv.pc = "drain"
    /\ rcv.kind = "bench"
    /\ LET view == View(rcv.index, rcv.len)
           m == Min(rcv.len, BenchTake)
           hits == {j \in 1 .. m : view[j] = Sentinel}
           found == hits # {}
           cc == IF found THEN CHOOSE j \in hits : \A k \in hits : j <= k ELSE m
           summed == SubSeq(view, 1, IF found THEN cc - 1 ELSE cc)
       IN  /\ consumed' = consumed \o SubSeq(view, 1, cc)
           /\ rcv' = [rcv EXCEPT !.n = cc, !.repeat = ~found, !.r = @ + cc,
                                 !.quit = found,
                                 !.sum = @ + SumSeq(summed),
                                 !.pc = "sub"]
    /\ UNCHANGED <<shared, snd, published, hist>>

\* if quit { break; }
BenchRecvDone ==
    /\ rcv.pc = "ret"
    /\ rcv.quit
    /\ rcv' = [rcv EXCEPT !.pc = "done"]
    /\ UNCHANGED <<shared, snd, published, consumed, hist>>

\* if can_recv == 0 { wait_epoll(waitfd); .. }
BenchRecvWait ==
    /\ rcv.pc = "ret" /\ rcv.ret = 0
    /\ ~rcv.quit
    /\ rcv' = [rcv EXCEPT !.pc = "wait"]
    /\ UNCHANGED <<shared, snd, published, consumed, hist>>

\* wait_epoll returns once the descriptor is readable; r.wait_clear()
BenchRecvWoken ==
    /\ rcv.pc = "wait"
    /\ fdEmpty > 0
    /\ rcv' = [RecvIdle("clear") EXCEPT !.quit = rcv.quit]
    /\ UNCHANGED <<shared, snd, published, consumed, hist>>

BenchSender ==
    \/ BenchSend
    \/ BenchSendWait
    \/ BenchSendWoken
    \/ BenchSendSentinel
    \/ BenchSendDone
    \/ SLoad
    \/ ForeachFill
    \/ SAdd
    \/ SSignal
    \/ SFlush

BenchReceiver ==
    \/ BenchRecv
    \/ BenchRecvWait
    \/ BenchRecvWoken
    \/ BenchRecvDone
    \/ RLoad
    \/ BenchDrain
    \/ RSub
    \/ RSignal
    \/ RFlush

NextBench == BenchSender \/ BenchReceiver

\* both threads are scheduled for as long as they can take a step
SpecBench ==
    /\ Init
    /\ [][NextBench]_vars
    /\ WF_vars(BenchSender)
    /\ WF_vars(BenchReceiver)

(***************************************************************************)
(* Properties.                                                             *)
(***************************************************************************)
IsPrefix(a, b) == Len(a) <= Len(b) /\ SubSeq(b, 1, Len(a)) = a

Range(index, len) == {i \in Slots : i >= index /\ i < index + len}

\* C1: in every reachable state of every interleaving of the steps of send
\* (load, callback, fetch_add) and recv (load, callback, fetch_sub), the
\* shared count lies between 0 and the capacity.
C1_CountInRange == count >= 0 /\ count <= Length

\* the ring is full while the Receiver is about to subtract what it
\* consumed and the Sender is about to load the count
C1_Witness ==
    /\ count = Length
    /\ rcv.pc = "sub" /\ rcv.n > 0
    /\ snd.pc = "load"

\* C2: the values consumed by the drain callbacks, in pass order, are always
\* a prefix of the values published by the send passes, and are all of them
\* whenever count is 0.
C2_Fifo ==
    /\ IsPrefix(consumed, published)
    /\ count = 0 => consumed = published

\* every item of the run went round the ring, past the end of the array
C2_Witness ==
    /\ count = 0
    /\ Len(published) = MaxItems
    /\ Len(consumed) = MaxItems
    /\ Len(consumed) > Length

\* C3: while a fill callback and a drain callback both run, the slots
\* offered to the one and the view handed to the other are disjoint, and a
\* view handed to drain holds the oldest published values not yet consumed.
C3_DisjointViews ==
    /\ (snd.pc = "fill" /\ rcv.pc = "drain")
          => Range(snd.index, snd.len) \cap Range(rcv.index, rcv.len) = {}
    /\ rcv.pc = "drain"
          => /\ Len(consumed) + rcv.len <= Len(published)
             /\ View(rcv.index, rcv.len)
                  = SubSeq(published, Len(consumed) + 1, Len(consumed) + rcv.len)

\* both callbacks run at once, each on a non-empty range
C3_Witness ==
    /\ snd.pc = "fill" /\ snd.len > 0
    /\ rcv.pc = "drain" /\ rcv.len > 0

\* C10: the first component a send pass returns is the capacity minus the
\* count right after its own fetch_add, and the first component a recv pass
\* returns is the count right after its own fetch_sub.
C10_ResultAfterRmw ==
    /\ snd.fin => snd.res[1] = Length - snd.after
    /\ rcv.fin => rcv.res[1] = rcv.after

\* a send pass whose fetch_add found less than the count it had loaded,
\* because a recv pass completed in between
C10_Witness ==
    /\ snd.fin /\ snd.n > 0 /\ snd.c < snd.cb
    /\ rcv.fin /\ rcv.n > 0 /\ rcv.res[1] = rcv.c - rcv.n

\* C5: a completed call of the wrapper's send or send_foreach has written
\* exactly one token to its signal_fd if it wrote at least one item and one
\* of its passes took count from 0 to a positive value, and none otherwise.
C5_SendToken ==
    snd.pc = "ret" =>
        snd.tok = (IF snd.r > 0 /\ snd.trans THEN 1 ELSE 0)

\* one item was sent into the empty ring, with a token; the send of a second
\* item right after it, with no recv in between, has returned without one
C5_Witness ==
    /\ snd.pc = "ret" /\ snd.r = 1 /\ snd.tok = 0
    /\ Len(published) = 2 /\ count = 2
    /\ hist.tokE = 1 /\ fdEmpty = 1
    /\ rcv = RcvInit

\* C6: a completed call of the wrapper's recv has written exactly one token
\* to its signal_fd if it consumed at least one item and one of its passes
\* took count from the capacity to less, and none otherwise.
C6_RecvToken ==
    rcv.pc = "ret" =>
        rcv.tok = (IF rcv.r > 0 /\ rcv.trans THEN 1 ELSE 0)

\* the ring was filled, a first recv removed an item, with a token; the next
\* recv, with no send in between, has removed another without one
C6_Witness ==
    /\ rcv.pc = "ret" /\ rcv.r = 1 /\ rcv.tok = 0
    /\ Len(published) = Length /\ Len(consumed) = 2
    /\ hist.transF = 1 /\ hist.tokF = 1 /\ fdFull = 1
    /\ snd.pc = "ret"

\* C7, as claimed: neither wake descriptor ever holds more than one unread
\* token.
C7_AtMostOneUnread == fdEmpty <= 1 /\ fdFull <= 1

\* C7, amended: a call writes at most one token, and the tokens written to a
\* wake descriptor (hence its unread tokens) never outnumber the transitions
\* of count that wake stands for: empty to non-empty for the Receiver's
\* descriptor, full to non-full for the Sender's.
C7_TokensWithinTransitions ==
    /\ snd.tok <= 1 /\ rcv.tok <= 1
    /\ fdEmpty <= hist.tokE /\ hist.tokE <= hist.transE
    /\ fdFull <= hist.tokF /\ hist.tokF <= hist.transF

\* two tokens lie unread in the Receiver's wake descriptor, one for each
\* time the ring left the empty state
C7_Witness ==
    /\ fdEmpty = 2 /\ hist.transE = 2
    /\ snd.pc = "ret" /\ snd.tok = 1

\* C8: at every point of every run, the tokens written so far to the
\* Receiver's wake descriptor are at most 1 + the empty to non-empty
\* transitions so far, and those written to the Sender's wake descriptor at
\* most 1 + the full to non-full transitions so far.
C8_EdgeTriggered ==
    /\ hist.tokE <= 1 + hist.transE
    /\ hist.tokF <= 1 + hist.transF

\* every item of the run was sent and some were received while the ring
\* left the empty state once and the full state once: one token each way
C8_Witness ==
    /\ Len(published) = MaxItems /\ Len(consumed) >= 1
    /\ hist.transE = 1 /\ hist.tokE = 1
    /\ hist.transF = 1 /\ hist.tokF = 1
    /\ snd.pc = "ret" /\ rcv.pc = "ret" /\ snd.r = 1

\* C9, as claimed: on a pipe, a wait_clear that returns leaves no unread
\* token in its wait_fd.
C9_FlushLeavesNone ==
    [][(rcv.pc = "clear" /\ rcv'.pc = "idle" /\ fdKind = "pipe")
          => fdEmpty' = 0]_vars

\* C9, amended: wait_clear issues one read of 32 eight-byte words, which on
\* a pipe absorbs the unread tokens up to 32 of them: it leaves none when at
\* most 32 had accumulated and the excess over 32 otherwise; on an eventfd
\* it leaves none.
C9_FlushAbsorbsUpTo32 ==
    [][(rcv.pc = "clear" /\ rcv'.pc = "idle")
          => /\ fdEmpty' = (IF fdKind = "pipe" /\ fdEmpty > 32
                            THEN fdEmpty - 32 ELSE 0)
             /\ rcv'.e = fdEmpty - fdEmpty']_vars

\* a wait_clear on a pipe has returned after absorbing 32 tokens and left
\* one behind
C9_Witness ==
    /\ fdKind = "pipe"
    /\ rcv.pc = "idle" /\ rcv.e = 32
    /\ fdEmpty = 1 /\ hist.tokE = 33

\* C4: in the benchmark's protocol, under weak fairness of both threads,
\* the Receiver's thread eventually sees the sentinel and stops; no
\* wait_clear is issued on a descriptor without an unread token; and when
\* the sentinel is seen every published value has been consumed exactly
\* once, in order, so that the two sums agree.
C4_SentinelShutdown ==
    /\ <>(rcv.pc = "done" /\ snd.pc = "done")
    /\ [](snd.pc = "clear" => fdFull > 0)
    /\ [](rcv.pc = "clear" => fdEmpty > 0)
    /\ [](rcv.pc = "done" =>
            /\ consumed = published
            /\ published[Len(published)] = Sentinel
            /\ \A k \in 1 .. (Len(published) - 1) : published[k] # Sentinel
            /\ rcv.sum = snd.total1)

\* both threads have waited and been woken, and the run ended with the
\* sentinel seen after values of every iteration
C4_Witness ==
    /\ rcv.pc = "done" /\ snd.pc = "done"
    /\ hist.tokE >= 2 /\ hist.tokF >= 1
    /\ Len(consumed) > Length + 1
    /\ rcv.sum = snd.total1 /\ rcv.sum > 0


\* C11 as stated: the flag of a completed ringbuf send is true exactly when
\* the count that was loaded to cut the slice was 0 and n > 0.
C11_FlagFromLoadedCount ==
    snd.fin => (snd.res[2] <=> (snd.cb = 0 /\ snd.n > 0))

\* C11: the flag of a completed ringbuf send is true exactly when the value
\* of count that its own fetch_add replaced, c, was 0 and n > 0; c is never
\* above the count cb loaded to cut the slice, and when no fetch_sub came
\* in between (c = cb) the flag is the one computed from cb.
C11_FlagFromFetchAdd ==
    snd.fin =>
        /\ snd.after = snd.c + snd.n
        /\ snd.res[2] <=> (snd.c = 0 /\ snd.n > 0)
        /\ snd.c <= snd.cb
        /\ snd.c = snd.cb => (snd.res[2] <=> (snd.cb = 0 /\ snd.n > 0))

\* a send that loaded a non-zero count reports the empty -> non-empty
\* transition its fetch_add made
C11_Witness ==
    /\ snd.fin /\ snd.res[2]
    /\ snd.cb > 0 /\ snd.c = 0 /\ snd.after = snd.n

\* C12 as stated: the flag of a completed ringbuf recv is true exactly when
\* the count that was loaded to cut the view was >= N and n > 0.
C12_FlagFromLoadedCount ==
    rcv.fin => (rcv.res[2] <=> (rcv.cb >= Length /\ rcv.n > 0))

\* C12: the flag of a completed ringbuf recv is true exactly when the value
\* of count that its own fetch_sub replaced, c, was >= N and n > 0; c is
\* never below the count cb loaded to cut the view, and when no fetch_add
\* came in between (c = cb) the flag is the one computed from cb.
C12_FlagFromFetchSub ==
    rcv.fin =>
        /\ rcv.after = rcv.c - rcv.n
        /\ rcv.res[2] <=> (rcv.c >= Length /\ rcv.n > 0)
        /\ rcv.c >= rcv.cb
        /\ rcv.c = rcv.cb => (rcv.res[2] <=> (rcv.cb >= Length /\ rcv.n > 0))

\* a recv that loaded a count below the capacity reports the full ->
\* non-full transition its fetch_sub made
C12_Witness ==
    /\ rcv.fin /\ rcv.res[2]
    /\ rcv.cb < Length /\ rcv.c = Length /\ rcv.after = Length - rcv.n

\* C13 as stated: a send that is offered no slot and a recv that is offered
\* an empty view return (0, false).
C13_NothingOfferedReturnsZero ==
    /\ snd.fin /\ snd.len = 0 => snd.res = <<0, FALSE>>
    /\ rcv.fin /\ rcv.len = 0 => rcv.res = <<0, FALSE>>

\* C13: the callbacks only run on a non-empty slice; a send that is offered
\* no slot adds 0, leaves count and the write index as they are and returns
\* (N - c, false), a recv that is offered an empty view subtracts 0, leaves
\* count and the read index as they are and returns (c, false), where c is
\* the count its fetch_add(0) / fetch_sub(0) returned; that is (0, false)
\* when the peer did not change count since the load.
C13_NothingOffered ==
    /\ [](snd.pc = "fill" => snd.len > 0)
    /\ [](rcv.pc = "drain" => rcv.len > 0)
    /\ [][snd.pc = "add" /\ snd.len = 0 /\ snd'.pc # "add" =>
            /\ count' = count /\ data' = data
            /\ snd'.index = snd.index
            /\ snd'.n = 0
            /\ snd'.res = <<Length - count, FALSE>>
            /\ count = snd.cb => snd'.res = <<0, FALSE>>]_vars
    /\ [][rcv.pc = "sub" /\ rcv.len = 0 /\ rcv'.pc # "sub" =>
            /\ count' = count /\ data' = data
            /\ rcv'.index = rcv.index
            /\ rcv'.n = 0
            /\ rcv'.res = <<count, FALSE>>
            /\ count = rcv.cb => rcv'.res = <<0, FALSE>>]_vars

\* a send found the ring full, the Receiver made room before the send's
\* fetch_add(0), and the send reports the room; a recv found the ring empty
C13_Witness ==
    /\ snd.fin /\ snd.len = 0 /\ snd.n = 0 /\ snd.res[1] > 0
    /\ rcv.fin /\ rcv.len = 0 /\ rcv.n = 0

\* C17: the range offered to fill starts at the write index and has exactly
\* min(N - write_index, N - cb) slots, the view offered to drain starts at
\* the read index and has exactly min(N - read_index, cb) items, cb being
\* the count the call loaded; neither goes past the end of the array.
C17_OfferedLengths ==
    /\ snd.pc \in {"fill", "add"} =>
          /\ snd.len = Min(Length - snd.index, Length - snd.cb)
          /\ snd.index + snd.len <= Length
    /\ rcv.pc \in {"drain", "sub"} =>
          /\ rcv.len = Min(Length - rcv.index, rcv.cb)
          /\ rcv.index + rcv.len <= Length

\* a fill is offered fewer slots than reach to the end of the array because
\* of the items in the ring, while a drain is offered all of these items
C17_Witness ==
    /\ snd.pc = "fill" /\ snd.cb > 0 /\ snd.len < Length - snd.index
    /\ rcv.pc = "drain" /\ rcv.len = rcv.cb

\* C18: whenever neither endpoint is inside a send, send_foreach or recv,
\* (read_index + count) mod N = write_index and both indices are in 0..N-1.
C18_GapEquation ==
    (/\ snd.pc \notin {"load", "fill", "add", "signal"}
     /\ rcv.pc \notin {"load", "drain", "sub", "signal"}) =>
        /\ (rcv.index + count) % Length = snd.index
        /\ snd.index \in 0 .. (Length - 1)
        /\ rcv.index \in 0 .. (Length - 1)

\* both calls have returned, items are in the ring and the write index has
\* wrapped behind the read index
C18_Witness ==
    /\ snd.pc = "ret" /\ rcv.pc = "ret"
    /\ count > 0 /\ snd.index < rcv.index
    /\ Len(consumed) > 0

\* the slots holding published items that are not yet subtracted
Live == {(rcv.index + k) % Length : k \in 0 .. (count - 1)}

\* C19: a step of the Sender leaves the read index alone, writes only slots
\* of the range it was offered and none that holds a live item; a step of
\* the Receiver leaves the write index and every slot alone; only count is
\* written by both.
C19_Frame ==
    [][/\ snd' # snd => /\ rcv' = rcv
                        /\ consumed' = consumed
                        /\ fdFull' <= fdFull
                        /\ count' >= count
                        /\ \A i \in Slots : data'[i] # data[i] =>
                              /\ snd.pc = "fill"
                              /\ i \in Range(snd.index, snd.len)
                              /\ i \notin Live
       /\ rcv' # rcv => /\ snd' = snd
                        /\ data' = data
                        /\ published' = published
                        /\ fdEmpty' <= fdEmpty
                        /\ count' <= count]_vars

\* a fill has written into its range while the Receiver reads a view of
\* live items
C19_Witness ==
    /\ snd.pc = "add" /\ snd.n > 0 /\ snd.cb > 0
    /\ rcv.pc = "drain" /\ rcv.len > 0
    /\ \A i \in Range(snd.index, snd.n) : data[i] = Len(published) + (i - snd.index) + 1

\* no fetch_sub has removed an item since the running send_foreach was
\* entered
ForeachAlone == count = snd.count0 + snd.r

C15_FirstWritingPassEmpty ==
    (snd.pc = "signal" /\ snd.kind = "foreach") =>
        (snd.was_empty <=> snd.first = "empty")

\* C15: the aggregated flag of a send_foreach is true exactly when the
\* fetch_add of one of its passes wrote items and took count up from 0; it
\* is true if the first pass that wrote had loaded a count of 0, and with
\* no item removed during the call it is true only then.
C15_AggregatedFlag ==
    (snd.pc = "signal" /\ snd.kind = "foreach") =>
        /\ snd.was_empty <=> snd.trans
        /\ snd.first = "empty" => snd.was_empty
        /\ ForeachAlone => (snd.was_empty <=> snd.first = "empty")

\* the first pass that wrote had loaded a non-zero count, the Receiver
\* emptied the ring, and the second pass's fetch_add found count 0
C15_Witness ==
    /\ snd.pc = "signal" /\ snd.kind = "foreach"
    /\ snd.pass = 2 /\ snd.first = "items"
    /\ snd.res[2] /\ snd.was_empty /\ snd.trans

\* C16: a wrapper call whose write to signal_fd fails returns the error
\* where it would have signalled; the failing step changes neither count,
\* nor a slot, nor an index, nor the histories, and adds no token; all the
\* passes of the call stay in effect: count is what was published less what
\* was subtracted, the published items are consumed in order, and between
\* calls the indices are count apart.
C16_ErrorKeepsRing ==
    /\ [][snd.pc = "signal" /\ snd'.err =>
            /\ count' = count /\ data' = data
            /\ snd'.index = snd.index
            /\ published' = published
            /\ fdEmpty' = fdEmpty /\ hist' = hist]_vars
    /\ [][rcv.pc = "signal" /\ rcv'.err =>
            /\ count' = count /\ data' = data
            /\ rcv'.index = rcv.index
            /\ consumed' = consumed
            /\ fdFull' = fdFull /\ hist' = hist]_vars
    /\ [](snd.err => snd.pc = "ret" /\ snd.tok = 0 /\ snd.r > 0 /\ snd.trans)
    /\ [](rcv.err => rcv.pc = "ret" /\ rcv.tok = 0 /\ rcv.r > 0 /\ rcv.trans)
    /\ [](count = Len(published) - Len(consumed)
                    + (IF rcv.pc = "sub" THEN rcv.n ELSE 0))
    /\ [](IsPrefix(consumed, published))
    /\ []((snd.pc = "ret" /\ rcv.pc = "ret") =>
              (rcv.index + count) % Length = snd.index)

\* a send into the empty ring and a recv from the full ring both returned
\* the error; no token was ever written, the items sent are in the ring or
\* consumed
C16_Witness ==
    /\ snd.pc = "ret" /\ snd.err /\ snd.r > 0
    /\ rcv.pc = "ret" /\ rcv.err /\ rcv.r > 0
    /\ hist.tokE = 0 /\ hist.tokF = 0 /\ fdEmpty = 0 /\ fdFull = 0
    /\ count > 0 /\ Len(consumed) > 0
    /\ count = Len(published) - Len(consumed)

\* C20: while the Receiver's owner is blocked on wait_fd, having been told
\* by recv or wait_status that nothing is available, if count > 0 and the
\* Sender is not inside send or send_foreach then an unread token lies in
\* the Receiver's wait_fd; while the Sender's owner is blocked, having been
\* told that nothing is free, if count < N and the Receiver is not inside
\* recv then an unread token lies in the Sender's wait_fd.
C20_NoLostWakeup ==
    /\ (/\ rcv.pc = "wait"
        /\ count > 0
        /\ snd.pc \notin {"load", "fill", "add", "signal"}) => fdEmpty >= 1
    /\ (/\ snd.pc = "wait"
        /\ count < Length
        /\ rcv.pc \notin {"load", "drain", "sub", "signal"}) => fdFull >= 1

\* the Receiver's owner was told that nothing is available and blocked, the
\* Sender then filled the ring, was told that nothing is free and blocked
\* too: the token that wakes the Receiver is there
C20_Witness ==
    /\ rcv.pc = "wait" /\ snd.pc = "wait"
    /\ count = Length /\ count > 0
    /\ fdEmpty >= 1

\* C22: no usize operation of a pass wraps and no slice leaves the array.
\* For a send the value c its fetch_add returned is at most the count cb it
\* loaded, so c + n <= N, count becomes c + n and the result is N - c - n,
\* at least 0; for a recv the value c its fetch_sub returned is at least cb,
\* which is at least n, so count becomes c - n and the result is c - n, at
\* least 0; every offered range lies within the array.
C22_NoUnderflow ==
    /\ snd.fin =>
          /\ snd.c <= snd.cb
          /\ snd.n <= snd.len /\ snd.len <= Length - snd.cb
          /\ snd.c + snd.n <= Length
          /\ snd.after = snd.c + snd.n
          /\ snd.res[1] = Length - snd.c - snd.n
          /\ snd.res[1] >= 0
    /\ rcv.fin =>
          /\ rcv.c >= rcv.cb
          /\ rcv.cb >= rcv.len /\ rcv.len >= rcv.n
          /\ rcv.after = rcv.c - rcv.n
          /\ rcv.res[1] = rcv.c - rcv.n
          /\ rcv.res[1] >= 0
    /\ snd.index < Length /\ rcv.index < Length
    /\ snd.pc \in {"fill", "add"} => snd.index + snd.len <= Length
    /\ rcv.pc \in {"drain", "sub"} => rcv.index + rcv.len <= Length

\* a send has filled the ring to the brim between the load and the
\* fetch_sub of a recv that takes all it was shown
C22_Witness ==
    /\ snd.fin /\ snd.n > 0 /\ snd.c + snd.n = Length /\ snd.res[1] = 0
    /\ rcv.fin /\ rcv.n > 0 /\ rcv.c > rcv.cb /\ rcv.cb = rcv.n
    /\ rcv.after = rcv.c - rcv.n

\* C21: in send (recv) a pass that is offered no slot (an empty view) goes
\* to its fetch_add (fetch_sub) without the callback, with repeat false,
\* and ends the loop.  Hence with a callback that takes at least one item
\* whenever it is invoked and always asks for a repeat, and the peer
\* outside any call, the callback is invoked at most N times, the loop ends
\* after these passes and one more, with the ring full (empty), and the
\* call returns.
C21_RepeatTerminates ==
    /\ [][snd.pc = "load" /\ snd' # snd /\ snd'.len = 0 =>
            snd'.pc = "add" /\ ~snd'.repeat /\ snd'.calls = snd.calls]_vars
    /\ [][snd.pc = "add" /\ snd.len = 0 /\ snd' # snd =>
            snd'.pc = "signal" /\ snd'.calls = snd.calls]_vars
    /\ [][rcv.pc = "load" /\ rcv' # rcv /\ rcv'.len = 0 =>
            rcv'.pc = "sub" /\ ~rcv'.repeat /\ rcv'.calls = rcv.calls]_vars
    /\ [][rcv.pc = "sub" /\ rcv.len = 0 /\ rcv' # rcv =>
            rcv'.pc = "signal" /\ rcv'.calls = rcv.calls]_vars
    /\ [](snd.pc = "fill" => snd.len > 0)
    /\ [](rcv.pc = "drain" => rcv.len > 0)
    /\ [](snd.calls <= Length /\ rcv.calls <= Length)
    /\ [](snd.pc = "signal" =>
            /\ snd.len = 0 /\ count = Length
            /\ snd.calls + 1 <= Length + 1)
    /\ [](rcv.pc = "signal" =>
            /\ rcv.len = 0 /\ count = 0
            /\ rcv.calls + 1 <= Length + 1)
    /\ (snd.pc = "load" ~> snd.pc = "ret")
    /\ (rcv.pc = "load" ~> rcv.pc = "ret")

\* after a recv that emptied the ring, a send has filled it item by item in
\* N invoked passes and ended with the pass that was offered nothing
C21_Witness ==
    /\ snd.pc = "signal" /\ snd.kind = "send"
    /\ snd.calls = Length /\ snd.r = Length /\ snd.len = 0
    /\ count = Length
    /\ rcv.pc = "ret" /\ rcv.r = Length

====
